---- MODULE Spec2Model ----
(***************************************************************************)
(* QuarterTime: the activity-interval bookkeeping of src/main.py.          *)
(*                                                                         *)
(* The two tables of TimeTrackerDB (time_records, current_status), the     *)
(* AUTOINCREMENT counter of time_records and the wall clock are the state. *)
(* The handlers of the GUI that write the store are the actions:           *)
(*   handle_button_click  -> TimeTrackerDB.log_activity                    *)
(*   validate_and_submit  -> TimeTrackerDB.manual_insert_activity          *)
(*   clear_history        -> TimeTrackerDB._clear_history                  *)
(* Timestamps are the strings '%Y-%m-%d %H:%M:%S'; they are compared as    *)
(* strings by SQLite, which for this fixed-width format is the order of    *)
(* the whole seconds they denote, so a timestamp is modelled as a number   *)
(* of whole seconds.  The wall clock itself (datetime.now()) is finer than *)
(* a second: it is counted in ticks, and strftime truncates it.            *)
(***************************************************************************)
EXTENDS Integers, Sequences, FiniteSets, TLC

\* ------------------------------------------------------------------ bounds
\* The last tick of the wall clock the model explores.
MaxClock == 4
\* The largest rowid time_records ever hands out.
MaxId == 3
\* Ticks of datetime.now() per second of a formatted timestamp.
TicksPerSecond == 2

\* The calendar of the reporting queries, scaled down: seconds in a day (86400),
\* days in a month (28..31) and months in a year (12).
DayLen == 3
DaysPerMonth == 2
MonthsPerYear == 2
\* The days (from day 0) over which the stored rows of a reporting run lie.
NumDays == 4
\* The most days a run of the month view marks as covered.
MaxCovered == 1

\* ------------------------------------------------------------------ values
\* SQL NULL in time_records.end_time (a timestamp is >= 0).
NULL == -1

\* The labels of the buttons and of the manual-add combobox (two of the
\* eight keys of COLOR_SCHEME).
Activities == {"Work", "Meeting"}

\* datetime.strftime('%Y-%m-%d %H:%M:%S'): whole seconds, the fraction dropped.
strftime(t) == t \div TicksPerSecond

\* datetime.strptime(s, '%Y-%m-%d %H:%M:%S'): the datetime at that whole second.
strptime(s) == s * TicksPerSecond

\* The timestamps a user can type into the manual-add dialog.
Timestamps == 0..(strftime(MaxClock) + 1)

VARIABLES
    time_records,    \* table time_records: sequence of rows, in rowid order
    current_status,  \* table current_status: << >> or one row (id = 1)
    seq,             \* sqlite_sequence of time_records (AUTOINCREMENT)
    clock,           \* datetime.now(), in ticks
    last,            \* history: the last handler that ran, its inputs and result
    pre,             \* history: the two tables as that handler found them
    covered_days,    \* table covered_days: the set of marked dates
    utc_offset,      \* local time minus UTC, in seconds (the machine's time zone)
    conn             \* the connection a statement-by-statement call holds open

vars == <<time_records, current_status, seq, clock, last, pre,
          covered_days, utc_offset, conn>>

\* No call is in progress: every connection is closed.
Closed == [state |-> "closed"]

\* ------------------------------------------------------------ SQL helpers
Row(id, activity_type, start_time, end_time) ==
    [id |-> id, activity_type |-> activity_type,
     start_time |-> start_time, end_time |-> end_time]

\* Mutant: the UPDATE never runs, the open row stays open.
UpdateEndNowhere(rows, now) == rows

\* Mutant: the UPDATE without its WHERE clause, every row gets the new end.
UpdateEndEverywhere(rows, now) ==
    [i \in DOMAIN rows |-> [rows[i] EXCEPT !.end_time = now]]

\* UPDATE time_records SET end_time = ? WHERE end_time IS NULL
UpdateEndWhereNull(rows, now) ==
    [i \in DOMAIN rows |->
        IF rows[i].end_time = NULL THEN [rows[i] EXCEPT !.end_time = now]
        ELSE rows[i]]

\* INSERT INTO time_records (activity_type, start_time[, end_time]) VALUES ...
\* with id INTEGER PRIMARY KEY AUTOINCREMENT: one more than every id so far.
InsertRecord(rows, seqno, activity_type, start_time, end_time) ==
    Append(rows, Row(seqno + 1, activity_type, start_time, end_time))

\* REPLACE INTO current_status (id, current_activity, last_start) VALUES (1, ?, ?)
ReplaceStatus(activity_type, now) ==
    <<[current_activity |-> activity_type, last_start |-> now]>>

\* What a call leaves in the store, and what it returns.
Outcome(ret, rows, status, seqno) ==
    [ret |-> ret, time_records |-> rows, current_status |-> status, seq |-> seqno]

\* ------------------------------------------------- TimeTrackerDB.log_activity
\* Mutant: the same-label test is missing, every press is recorded.
log_activity_always(activity_type, now, rows, status, seqno) ==
    Outcome("True",
            InsertRecord(UpdateEndWhereNull(rows, now), seqno, activity_type, now, NULL),
            ReplaceStatus(activity_type, now),
            seqno + 1)

\* now is sampled once, before the connection is opened.  The early return
\* leaves without a commit and has written nothing.
log_activity(activity_type, now, rows, status, seqno) ==
    IF status # << >> /\ status[1].current_activity = activity_type
    THEN Outcome("False", rows, status, seqno)
    ELSE LET closed == IF status # << >> /\ status[1].current_activity # ""
                       THEN UpdateEndWhereNull(rows, now)
                       ELSE rows
         IN  Outcome("True",
                     InsertRecord(closed, seqno, activity_type, now, NULL),
                     ReplaceStatus(activity_type, now),
                     seqno + 1)

\* ------------------------------------- TimeTrackerDB.manual_insert_activity
\* SELECT id, start_time, end_time FROM time_records
\*  WHERE start_time <= ? AND (end_time >= ? OR end_time IS NULL)
\*  ORDER BY start_time DESC LIMIT 1
\* The rows the query may return: the matching rows of the latest start_time.
\* SQL leaves the order of rows of equal start_time open, so each of them is a
\* possible answer; the empty set is fetchone() returning None.
SelectOriginal(rows, start_str) ==
    LET match == {i \in DOMAIN rows :
                     /\ rows[i].start_time <= start_str
                     /\ (rows[i].end_time = NULL \/ rows[i].end_time >= start_str)}
    IN  {i \in match : \A j \in match : rows[j].start_time <= rows[i].start_time}

\* SELECT MIN(start_time) FROM time_records WHERE start_time > ?
\* (NULL when no row starts later)
SelectNextStart(rows, start_str) ==
    LET later == {rows[i].start_time : i \in {j \in DOMAIN rows : rows[j].start_time > start_str}}
    IN  IF later = {} THEN NULL
        ELSE CHOOSE t \in later : \A u \in later : t <= u

\* UPDATE time_records SET start_time = ? WHERE start_time = ? AND id != last_insert_rowid()
UpdateStartWhere(rows, new_start, old_start, last_rowid) ==
    [i \in DOMAIN rows |->
        IF rows[i].start_time = old_start /\ rows[i].id # last_rowid
        THEN [rows[i] EXCEPT !.start_time = new_start]
        ELSE rows[i]]

\* Mutant: the inserted row always ends now, the original end is forgotten.
manual_insert_until_now(activity_type, start_str, now, rows, status, seqno, orig) ==
    IF orig # 0
    THEN Outcome("None",
                 InsertRecord([rows EXCEPT ![orig].end_time = start_str],
                              seqno, activity_type, start_str, now),
                 status, seqno + 1)
    ELSE Outcome("None",
                 InsertRecord(rows, seqno, activity_type, start_str, now),
                 status, seqno + 1)

\* Mutant: the original row is not cut, the inserted row is laid over it.
manual_insert_no_cut(activity_type, start_str, now, rows, status, seqno, orig) ==
    LET next_record == SelectNextStart(rows, start_str)
        end_time    == IF orig # 0 /\ rows[orig].end_time # NULL THEN rows[orig].end_time
                       ELSE IF next_record # NULL THEN next_record ELSE now
    IN  Outcome("None",
                InsertRecord(rows, seqno, activity_type, start_str, end_time),
                status, seqno + 1)

\* Mutant: an insertion into the open row also makes the inserted activity
\* the current one, as log_activity would.
manual_insert_sets_status(activity_type, start_str, now, rows, status, seqno, orig) ==
    IF orig # 0
    THEN LET orig_end == rows[orig].end_time
             cut      == [rows EXCEPT ![orig].end_time = start_str]
             new_end  == IF orig_end # NULL THEN orig_end ELSE now
             added    == InsertRecord(cut, seqno, activity_type, start_str, new_end)
         IN  Outcome("None",
                     IF orig_end # NULL
                     THEN UpdateStartWhere(added, new_end, orig_end, seqno + 1)
                     ELSE added,
                     IF orig_end = NULL THEN ReplaceStatus(activity_type, start_str)
                     ELSE status,
                     seqno + 1)
    ELSE LET next_record == SelectNextStart(rows, start_str)
             end_time    == IF next_record # NULL THEN next_record ELSE now
         IN  Outcome("None",
                     InsertRecord(rows, seqno, activity_type, start_str, end_time),
                     status, seqno + 1)

\* Mutant: the successor update pulls the following row's start back to the
\* insertion time instead of leaving it at the original end.
manual_insert_moves_successor(activity_type, start_str, now, rows, status, seqno, orig) ==
    IF orig # 0
    THEN LET orig_end == rows[orig].end_time
             cut      == [rows EXCEPT ![orig].end_time = start_str]
             new_end  == IF orig_end # NULL THEN orig_end ELSE now
             added    == InsertRecord(cut, seqno, activity_type, start_str, new_end)
         IN  Outcome("None",
                     IF orig_end # NULL
                     THEN UpdateStartWhere(added, start_str, orig_end, seqno + 1)
                     ELSE added,
                     status, seqno + 1)
    ELSE LET next_record == SelectNextStart(rows, start_str)
             end_time    == IF next_record # NULL THEN next_record ELSE now
         IN  Outcome("None",
                     InsertRecord(rows, seqno, activity_type, start_str, end_time),
                     status, seqno + 1)

\* orig is the row the first SELECT returned (an index of rows), 0 for None;
\* now is datetime.now() formatted, read after that SELECT.
manual_insert_activity(activity_type, start_str, now, rows, status, seqno, orig) ==
    IF orig # 0
    THEN LET orig_end == rows[orig].end_time
             cut      == [rows EXCEPT ![orig].end_time = start_str]
             new_end  == IF orig_end # NULL THEN orig_end ELSE now
             added    == InsertRecord(cut, seqno, activity_type, start_str, new_end)
         IN  Outcome("None",
                     IF orig_end # NULL
                     THEN UpdateStartWhere(added, new_end, orig_end, seqno + 1)
                     ELSE added,
                     status, seqno + 1)
    ELSE LET next_record == SelectNextStart(rows, start_str)
             end_time    == IF next_record # NULL THEN next_record ELSE now
         IN  Outcome("None",
                     InsertRecord(rows, seqno, activity_type, start_str, end_time),
                     status, seqno + 1)

\* --------------------------------------------- TimeTrackerDB._clear_history
\* Mutant: the second DELETE is missing, current_status survives.
clear_history_rows_only(confirmed, rows, status, seqno) ==
    IF confirmed THEN Outcome("None", << >>, status, seqno)
    ELSE Outcome("None", rows, status, seqno)

\* DELETE FROM time_records; DELETE FROM current_status  (behind askyesno).
\* AUTOINCREMENT keeps its counter across the DELETE.
clear_history(confirmed, rows, status, seqno) ==
    IF confirmed THEN Outcome("None", << >>, << >>, seqno)
    ELSE Outcome("None", rows, status, seqno)

\* ---------------------------------------------------------------- actions
\* op: the handler; at: the datetime.now() (ticks) that validate_and_submit tests
\* the start time against (0 for the other handlers); now: the formatted time
\* the call writes; orig: the row manual_insert_activity's first SELECT returned
\* (0: none); confirmed: the answer to _clear_history's askyesno; ret: what the
\* call returned or raised.
Call(op, activity_type, start_time, at, now, orig) ==
    [op |-> op, activity_type |-> activity_type, start_time |-> start_time,
     at |-> at, now |-> now, orig |-> orig, confirmed |-> FALSE, ret |-> "None"]

Pre == [time_records |-> time_records, current_status |-> current_status]

Apply(call, r) ==
    /\ r.seq <= MaxId
    /\ time_records' = r.time_records
    /\ current_status' = r.current_status
    /\ seq' = r.seq
    /\ last' = [call EXCEPT !.ret = r.ret]
    /\ pre' = Pre
    /\ UNCHANGED <<covered_days, utc_offset, conn>>

Init ==
    /\ time_records = << >>
    /\ current_status = << >>
    /\ seq = 0
    /\ clock = 0
    /\ last = Call("init", "", NULL, 0, NULL, 0)
    /\ pre = [time_records |-> << >>, current_status |-> << >>]
    /\ covered_days = {}
    /\ utc_offset = 0
    /\ conn = Closed

\* The wall clock moves on between and during the handlers.
Tick ==
    /\ clock < MaxClock
    /\ clock' = clock + 1
    /\ UNCHANGED <<time_records, current_status, seq, last, pre,
                   covered_days, utc_offset, conn>>

\* TimeTrackerApp._handle_button_click: one of the activity buttons.
HandleButtonClick ==
    \E activity_type \in Activities :
        LET now == strftime(clock)
        IN  /\ Apply(Call("log_activity", activity_type, NULL, 0, now, 0),
                     log_activity(activity_type, now, time_records, current_status, seq))
            /\ UNCHANGED clock

\* Mutant: the test compares against the end of the current second.
InFutureSlack(start_time, now_dt) == start_time > now_dt + TicksPerSecond

\* The future-time test of validate_and_submit, on datetimes.
InFuture(start_time, now_dt) == start_time > now_dt

\* TimeTrackerApp._show_manual_add_dialog.validate_and_submit: the dialog's
\* submit button.  An empty activity returns at once; a start time in the
\* future raises ValueError, which the handler reports in the dialog.  The
\* clock is read again inside manual_insert_activity and may have moved.
ValidateAndSubmit ==
    \E activity \in Activities \cup {""}, start_str \in Timestamps,
       later \in clock..(IF clock < MaxClock THEN clock + 1 ELSE clock) :
        LET start_time == strptime(start_str)
            now        == strftime(later)
            call(orig) == Call("manual_insert", activity, start_str, clock, now, orig)
            refused(why) == Outcome(why, time_records, current_status, seq)
        IN  IF activity = ""
            THEN /\ later = clock
                 /\ Apply(call(0), refused("NoActivity"))
                 /\ UNCHANGED clock
            ELSE IF InFuture(start_time, clock)
            THEN /\ later = clock
                 /\ Apply(call(0), refused("ValueError"))
                 /\ UNCHANGED clock
            ELSE \E orig \in (IF SelectOriginal(time_records, start_str) = {}
                              THEN {0} ELSE SelectOriginal(time_records, start_str)) :
                    /\ Apply(call(orig), manual_insert_activity(activity, start_str, now,
                                       time_records, current_status, seq, orig))
                    /\ clock' = later

\* The history window's clear button: TimeTrackerDB._clear_history.
ClearHistory ==
    \E confirmed \in BOOLEAN :
        /\ Apply([Call("clear_history", "", NULL, 0, NULL, 0) EXCEPT !.confirmed = confirmed],
                 clear_history(confirmed, time_records, current_status, seq))
        /\ UNCHANGED clock

Next == Tick \/ HandleButtonClick \/ ValidateAndSubmit \/ ClearHistory

Spec == Init /\ [][Next]_vars

\* Only the activity buttons are used: the store is written by log_activity alone.
NextRecord == Tick \/ HandleButtonClick

SpecRecord == Init /\ [][NextRecord]_vars

\* ------------------------------------------- the statement-level specification
\* The same handlers, one SQL statement at a time.  time_records,
\* current_status and seq are the committed database, which is what any other
\* connection reads; conn is the handler's own connection from
\* _get_connection: its statements still to run, its uncommitted view of the
\* database (work), and the database as it was when the handler began.
Store(rows, status, seqno) ==
    [time_records |-> rows, current_status |-> status, seq |-> seqno]

Committed == Store(time_records, current_status, seq)

Stmt(kind, activity_type, a, b) ==
    [kind |-> kind, activity_type |-> activity_type, a |-> a, b |-> b]

\* The statements log_activity runs, given what its SELECT reads; the early
\* return leaves before any write and before conn.commit().
log_activity_statements(activity_type, now, status) ==
    IF status # << >> /\ status[1].current_activity = activity_type
    THEN <<Stmt("select", "", NULL, NULL)>>
    ELSE <<Stmt("select", "", NULL, NULL)>>
         \o (IF status # << >> /\ status[1].current_activity # ""
             THEN <<Stmt("update_end_where_null", "", now, NULL)>> ELSE << >>)
         \o <<Stmt("insert", activity_type, now, NULL),
              Stmt("replace_status", activity_type, now, NULL),
              Stmt("commit", "", NULL, NULL)>>

\* The statements manual_insert_activity runs, given the row (orig) its first
\* SELECT reads.
manual_insert_statements(activity_type, start_str, now, rows, orig) ==
    IF orig # 0
    THEN LET orig_end == rows[orig].end_time
             new_end  == IF orig_end # NULL THEN orig_end ELSE now
         IN  <<Stmt("select", "", NULL, NULL),
               Stmt("update_end_where_id", "", start_str, rows[orig].id),
               Stmt("insert", activity_type, start_str, new_end)>>
             \o (IF orig_end # NULL
                 THEN <<Stmt("update_start_where", "", new_end, orig_end)>> ELSE << >>)
             \o <<Stmt("commit", "", NULL, NULL)>>
    ELSE LET next_record == SelectNextStart(rows, start_str)
             end_time    == IF next_record # NULL THEN next_record ELSE now
         IN  <<Stmt("select", "", NULL, NULL),
               Stmt("select", "", NULL, NULL),
               Stmt("insert", activity_type, start_str, end_time),
               Stmt("commit", "", NULL, NULL)>>

\* The statements of a confirmed _clear_history.
clear_history_statements ==
    <<Stmt("delete_time_records", "", NULL, NULL),
      Stmt("delete_current_status", "", NULL, NULL),
      Stmt("commit", "", NULL, NULL)>>

\* One statement run on the connection's view of the database.
Execute(stmt, w) ==
    CASE stmt.kind = "update_end_where_null" ->
            [w EXCEPT !.time_records = UpdateEndWhereNull(w.time_records, stmt.a)]
      [] stmt.kind = "update_end_where_id" ->
            [w EXCEPT !.time_records =
                [i \in DOMAIN w.time_records |->
                    IF w.time_records[i].id = stmt.b
                    THEN [w.time_records[i] EXCEPT !.end_time = stmt.a]
                    ELSE w.time_records[i]]]
      [] stmt.kind = "insert" ->
            [w EXCEPT !.time_records =
                        InsertRecord(w.time_records, w.seq, stmt.activity_type, stmt.a, stmt.b),
                      !.seq = w.seq + 1]
      [] stmt.kind = "update_start_where" ->
            [w EXCEPT !.time_records = UpdateStartWhere(w.time_records, stmt.a, stmt.b, w.seq)]
      [] stmt.kind = "replace_status" ->
            [w EXCEPT !.current_status = ReplaceStatus(stmt.activity_type, stmt.a)]
      [] stmt.kind = "delete_time_records" -> [w EXCEPT !.time_records = << >>]
      [] stmt.kind = "delete_current_status" -> [w EXCEPT !.current_status = << >>]
      [] OTHER -> w

\* Mutant: isolation_level=None, no statement opens a transaction and every
\* write is committed as it runs.
OpensTransactionNever(stmt) == FALSE

\* sqlite3.connect with the default isolation_level: the module issues BEGIN
\* before an INSERT, UPDATE, DELETE or REPLACE, not before a SELECT.
OpensTransaction(stmt) == stmt.kind \notin {"select", "commit"}

\* What the handler of call leaves and returns when it runs undisturbed.
Atomic(call, store) ==
    CASE call.op = "log_activity" ->
            log_activity(call.activity_type, call.now, store.time_records,
                         store.current_status, store.seq)
      [] call.op = "manual_insert" ->
            manual_insert_activity(call.activity_type, call.start_time, call.now,
                                   store.time_records, store.current_status,
                                   store.seq, call.orig)
      [] OTHER ->
            clear_history(call.confirmed, store.time_records,
                          store.current_status, store.seq)

Open(call, statements) ==
    /\ conn = Closed
    /\ Atomic(call, Committed).seq <= MaxId
    /\ conn' = [state |-> "open", call |-> call, statements |-> statements,
                in_transaction |-> FALSE, work |-> Committed, before |-> Committed]
    /\ UNCHANGED <<time_records, current_status, seq, clock, last, pre,
                   covered_days, utc_offset>>

\* A handler is entered and opens its connection.
Begin ==
    \/ \E activity_type \in Activities :
          Open(Call("log_activity", activity_type, NULL, 0, strftime(clock), 0),
               log_activity_statements(activity_type, strftime(clock), current_status))
    \/ \E activity \in Activities, start_str \in Timestamps :
          /\ ~InFuture(strptime(start_str), clock)
          /\ \E orig \in (IF SelectOriginal(time_records, start_str) = {}
                           THEN {0} ELSE SelectOriginal(time_records, start_str)) :
                Open(Call("manual_insert", activity, start_str, 0, strftime(clock), orig),
                     manual_insert_statements(activity, start_str, strftime(clock),
                                              time_records, orig))
    \/ Open([Call("clear_history", "", NULL, 0, NULL, 0) EXCEPT !.confirmed = TRUE],
            clear_history_statements)

\* The connection is closed: conn.close() in the finally of _get_connection
\* discards whatever was not committed.
Finish(ret) ==
    /\ conn' = Closed
    /\ last' = [conn.call EXCEPT !.ret = ret]
    /\ pre' = conn.before
    /\ UNCHANGED <<clock, covered_days, utc_offset>>

\* The next statement of the handler runs.  Outside a transaction a write is
\* committed at once; conn.commit() makes the connection's view the database.
Step ==
    /\ conn # Closed
    /\ conn.statements # << >>
    /\ LET stmt   == Head(conn.statements)
           work   == Execute(stmt, conn.work)
           inside == stmt.kind # "commit" /\ (conn.in_transaction \/ OpensTransaction(stmt))
       IN  /\ conn' = [conn EXCEPT !.statements = Tail(conn.statements),
                                   !.work = work, !.in_transaction = inside]
           /\ IF inside
              THEN UNCHANGED <<time_records, current_status, seq>>
              ELSE /\ time_records' = work.time_records
                   /\ current_status' = work.current_status
                   /\ seq' = work.seq
    /\ UNCHANGED <<clock, last, pre, covered_days, utc_offset>>

\* The handler returns after its last statement.
Return ==
    /\ conn # Closed
    /\ conn.statements = << >>
    /\ Finish(Atomic(conn.call, conn.before).ret)
    /\ UNCHANGED <<time_records, current_status, seq>>

\* A statement raises (sqlite3.Error): the handler is left through the finally.
Fail ==
    /\ conn # Closed
    /\ conn.statements # << >>
    /\ Finish("Error")
    /\ UNCHANGED <<time_records, current_status, seq>>

TickIdle == conn = Closed /\ Tick

NextTxn == TickIdle \/ Begin \/ Step \/ Return \/ Fail
SpecTxn == Init /\ [][NextTxn]_vars

\* ------------------------------------------------------- reading the store
\* The rows with end_time IS NULL.
OpenRows(rows) == {i \in DOMAIN rows : rows[i].end_time = NULL}

Ids(rows) == {rows[i].id : i \in DOMAIN rows}

\* The end of a row, an absent end read as now.
EndOrNow(row, now) == IF row.end_time = NULL THEN now ELSE row.end_time

\* The whole seconds t (standing for [t, t+1)) that row covers as [start, end).
Span(row, now) == {t \in 0..(strftime(MaxClock) + 1) : row.start_time <= t /\ t < EndOrNow(row, now)}

Covered(rows, now) == UNION {Span(rows[i], now) : i \in DOMAIN rows}

NoOverlap(rows, now) ==
    \A i, j \in DOMAIN rows : i # j => Span(rows[i], now) \cap Span(rows[j], now) = {}

\* The last handler was log_activity / manual_insert_activity really called.
Recorded == last.op = "log_activity"
Inserted == last.op = "manual_insert" /\ last.ret = "None"
SameLabel ==
    /\ pre.current_status # << >>
    /\ pre.current_status[1].current_activity = last.activity_type

\* ------------------------------------------------------------------ claims
\* C1: at most one row of time_records has end_time NULL, and whenever
\* current_status holds a row there is exactly one open row, whose label and
\* start are current_status's current_activity and last_start.
C1_OpenRowMirrorsStatus ==
    /\ Cardinality(OpenRows(time_records)) <= 1
    /\ current_status # << >> =>
          \E i \in DOMAIN time_records :
             /\ OpenRows(time_records) = {i}
             /\ time_records[i].activity_type = current_status[1].current_activity
             /\ time_records[i].start_time = current_status[1].last_start

\* C2: log_activity(L) while current_status already names L returns False and
\* leaves time_records and current_status exactly as they were.
C2_SameLabelIsNoOp ==
    (Recorded /\ SameLabel) =>
        /\ last.ret = "False"
        /\ time_records = pre.time_records
        /\ current_status = pre.current_status

\* C2 witness: a second press of the active label, with one open row in the store.
C2_Witness ==
    /\ Recorded /\ SameLabel /\ last.ret = "False"
    /\ Cardinality(OpenRows(time_records)) = 1

\* C3 (under SpecRecord): with log_activity the only writer, each row ends where
\* the next row (in creation order) starts, and only the last row is open.
C3_RecordsPartitionTime ==
    /\ \A i \in DOMAIN time_records :
          i < Len(time_records) =>
             /\ time_records[i].end_time # NULL
             /\ time_records[i].end_time = time_records[i + 1].start_time
    /\ time_records # << >> => time_records[Len(time_records)].end_time = NULL

\* C3 witness: three accepted presses, the first two rows of positive length.
C3_Witness ==
    /\ Len(time_records) = 3
    /\ time_records[1].start_time < time_records[2].start_time
    /\ time_records[2].start_time < time_records[3].start_time

\* C4: log_activity(L) when nothing is active or another label is active returns
\* True, gives the open row (if any) end = now, appends exactly one row
\* (L, now, NULL), sets current_status to (L, now) with the same now, and
\* leaves every closed row as it was.
C4_AcceptedTransition ==
    (Recorded /\ ~SameLabel) =>
        /\ last.ret = "True"
        /\ Len(time_records) = Len(pre.time_records) + 1
        /\ \A i \in DOMAIN pre.time_records :
              time_records[i] = IF pre.time_records[i].end_time = NULL
                                THEN [pre.time_records[i] EXCEPT !.end_time = last.now]
                                ELSE pre.time_records[i]
        /\ LET new == time_records[Len(time_records)]
           IN  /\ new.activity_type = last.activity_type
               /\ new.start_time = last.now
               /\ new.end_time = NULL
               /\ new.id \notin Ids(pre.time_records)
        /\ current_status = ReplaceStatus(last.activity_type, last.now)

\* C4 witness: a change of label that closes an open row later than the end
\* of an already closed row.
C4_Witness ==
    /\ Recorded /\ ~SameLabel /\ last.ret = "True"
    /\ \E i, j \in DOMAIN pre.time_records :
          /\ pre.time_records[i].end_time = NULL
          /\ pre.time_records[j].end_time # NULL
          /\ pre.time_records[j].end_time < last.now

\* The row manual_insert_activity's first SELECT returned, as it was.
Orig == pre.time_records[last.orig]
\* The row the last call appended.
NewRow == time_records[Len(time_records)]
SplitOpen == Inserted /\ last.orig # 0 /\ Orig.end_time = NULL
SplitClosed ==
    /\ Inserted /\ last.orig # 0
    /\ Orig.end_time # NULL
    /\ Orig.start_time <= last.start_time /\ last.start_time < Orig.end_time
NotContained == Inserted /\ last.orig = 0
OthersUnchanged ==
    /\ Len(time_records) = Len(pre.time_records) + 1
    /\ NewRow.id \notin Ids(pre.time_records)
    /\ \A i \in DOMAIN pre.time_records : i # last.orig => time_records[i] = pre.time_records[i]

\* C5: when the row containing the insertion time p is the open one (A, s, NULL),
\* manual_insert(B, p) leaves (A, s, p) and (B, p, NULL): the inserted row is open.
C5_SplitOpenLeavesNewOpen ==
    SplitOpen =>
        /\ time_records[last.orig] = [Orig EXCEPT !.end_time = last.start_time]
        /\ OthersUnchanged
        /\ NewRow.activity_type = last.activity_type
        /\ NewRow.start_time = last.start_time
        /\ NewRow.end_time = NULL

\* C6: when manual_insert(B, p) finds a closed row [s, e) with s <= p < e, that
\* row becomes [s, p) with its label, a new row (B, p, e) exists, every other
\* row is unchanged, the covered time is the same and no two rows overlap.
C6_SplitClosedPreservesTimeline ==
    SplitClosed =>
        /\ time_records[last.orig] = [Orig EXCEPT !.end_time = last.start_time]
        /\ OthersUnchanged
        /\ NewRow.activity_type = last.activity_type
        /\ NewRow.start_time = last.start_time
        /\ NewRow.end_time = Orig.end_time
        /\ Covered(time_records, last.now) = Covered(pre.time_records, last.now)
        /\ NoOverlap(time_records, last.now)

\* C6 witness: a closed row cut strictly inside, with a successor starting at
\* its end.
C6_Witness ==
    /\ SplitClosed
    /\ Orig.start_time < last.start_time
    /\ \E i \in DOMAIN pre.time_records : pre.time_records[i].start_time = Orig.end_time

\* C7: when no row contains p, manual_insert(L, p) leaves every row unchanged and
\* appends one row (L, p, end), end the smallest start after p, or NULL (the new
\* row is open) when no row starts after p.
C7_NotContainedEndsAtNextOrOpen ==
    NotContained =>
        /\ Len(time_records) = Len(pre.time_records) + 1
        /\ \A i \in DOMAIN pre.time_records : time_records[i] = pre.time_records[i]
        /\ NewRow.activity_type = last.activity_type
        /\ NewRow.start_time = last.start_time
        /\ NewRow.end_time = SelectNextStart(pre.time_records, last.start_time)

\* C8: a manual insert whose time is later than now is refused with ValueError
\* and time_records and current_status are as before the call.
C8_FutureRejected ==
    (last.op = "manual_insert" /\ last.activity_type # ""
        /\ strptime(last.start_time) > last.at) =>
        /\ last.ret = "ValueError"
        /\ time_records = pre.time_records
        /\ current_status = pre.current_status

\* C8 witness: a refused insert one second ahead, into a store that holds rows
\* and a status.
C8_Witness ==
    /\ last.op = "manual_insert" /\ last.ret = "ValueError"
    /\ last.start_time = strftime(last.at) + 1
    /\ time_records # << >> /\ current_status # << >>

\* C9: once a press was accepted and the store not cleared since (current_status
\* holds a row), some row is open and every second from the earliest start up
\* to now is covered by a row.
C9_AlwaysOn ==
    current_status # << >> =>
        /\ OpenRows(time_records) # {}
        /\ \A t \in 0..strftime(MaxClock) :
              (/\ t < strftime(clock)
               /\ \E i \in DOMAIN time_records : time_records[i].start_time <= t)
              => t \in Covered(time_records, strftime(clock))

\* C10: no two rows overlap, each read as [start, end) with an absent end read
\* as now.
C10_NoOverlap == NoOverlap(time_records, strftime(clock))

\* C10 witness: a closed row cut by hand into two halves of positive length,
\* next to the row the buttons opened after it.
C10_Witness ==
    /\ SplitClosed
    /\ Len(time_records) = 3
    /\ Span(time_records[last.orig], strftime(clock)) # {}
    /\ Span(NewRow, strftime(clock)) # {}
    /\ OpenRows(time_records) # {}

\* ------------------------------------------------------------ the queries
\* SQLite's datetime('now'): the current time in UTC, to the second.
SqlNow == strftime(clock) - utc_offset

Max(a, b) == IF a >= b THEN a ELSE b
Min(a, b) == IF a <= b THEN a ELSE b

\* COALESCE(end_time, datetime('now'))
Coalesce(end_time, sql_now) == IF end_time = NULL THEN sql_now ELSE end_time

\* ORDER BY start_time: the rows by ascending start_time.  SQL leaves the order
\* of rows of equal start_time open; SQLite's sorter keeps them in the order of
\* the table scan (rowid order), which is what this does.
OrderByStart(rows) ==
    LET before(i, j) == \/ rows[i].start_time < rows[j].start_time
                        \/ rows[i].start_time = rows[j].start_time /\ i < j
        rank(i) == Cardinality({j \in DOMAIN rows : before(j, i)}) + 1
    IN  [k \in DOMAIN rows |-> rows[CHOOSE i \in DOMAIN rows : rank(i) = k]]

HistoryRow(row, sql_now) ==
    [activity_type |-> row.activity_type,
     start_time    |-> row.start_time,
     end_time      |-> row.end_time,
     duration      |-> Max(0, Coalesce(row.end_time, sql_now) - row.start_time)]

\* Mutant: ORDER BY start_time DESC, the newest row first.
get_history_newest_first(rows, sql_now) ==
    LET sorted == OrderByStart(rows)
    IN  [k \in DOMAIN sorted |-> HistoryRow(sorted[Len(sorted) + 1 - k], sql_now)]

\* TimeTrackerDB.get_history: every row as (activity_type, start_time,
\* end_time, duration), end_time as stored (NULL when open).
get_history(rows, sql_now) ==
    LET sorted == OrderByStart(rows)
    IN  [k \in DOMAIN sorted |-> HistoryRow(sorted[k], sql_now)]

\* ----------------------------------------------------------- the calendar
\* A date is a count of days, a timestamp a count of seconds, both from the
\* first midnight of year 0.
\* date(ts) in SQL, datetime.date() in Python.
DateOf(t) == t \div DayLen
\* datetime(year, month, day): that date at 00:00:00.
StartOfDay(date) == date * DayLen
MonthIndex(date) == date \div DaysPerMonth
YearOf(date) == MonthIndex(date) \div MonthsPerYear
MonthOf(date) == (MonthIndex(date) % MonthsPerYear) + 1
DayOfMonth(date) == (date % DaysPerMonth) + 1
\* datetime(year, month, day).date()
MakeDate(year, month, day) ==
    (year * MonthsPerYear + (month - 1)) * DaysPerMonth + (day - 1)

\* Mutant: only the rows that start on the day, the carry-over from the day
\* before is lost.
DateMatchesSameDay(row, target_date) == DateOf(row.start_time) = target_date

\* The WHERE clause of get_date_records.
DateMatches(row, target_date) ==
    \/ DateOf(row.start_time) = target_date
    \/ /\ row.start_time < StartOfDay(target_date)
       /\ (row.end_time = NULL \/ row.end_time >= StartOfDay(target_date))

\* The CASE of get_date_records: the start moved up to the day's 00:00:00.
AdjustedStart(row, target_date) ==
    IF row.start_time < StartOfDay(target_date) THEN StartOfDay(target_date)
    ELSE row.start_time

\* TimeTrackerDB.get_date_records: (activity_type, adjusted_start, end_time,
\* duration) of the matching rows, by start_time.
get_date_records(rows, target_date, sql_now) ==
    LET keep(row) == DateMatches(row, target_date)
        sorted == OrderByStart(SelectSeq(rows, keep))
    IN  [k \in DOMAIN sorted |->
            [activity_type  |-> sorted[k].activity_type,
             adjusted_start |-> AdjustedStart(sorted[k], target_date),
             end_time       |-> Coalesce(sorted[k].end_time, sql_now),
             duration       |-> Max(0, Coalesce(sorted[k].end_time, sql_now)
                                        - AdjustedStart(sorted[k], target_date))]]

\* The first day of the month after (year, month), as get_month_records finds it.
NextMonthStart(year, month) ==
    LET next_month == IF month < MonthsPerYear THEN month + 1 ELSE 1
        next_year  == IF month < MonthsPerYear THEN year ELSE year + 1
    IN  StartOfDay(MakeDate(next_year, next_month, 1))

\* The WHERE clause of get_month_records: start_date is the month's first day
\* at 00:00:00, end_date its last day at 00:00:00 (the next month's first day
\* minus timedelta(days=1)).
MonthMatches(row, year, month) ==
    LET start_date == StartOfDay(MakeDate(year, month, 1))
        end_date   == NextMonthStart(year, month) - DayLen
    IN  /\ row.start_time <= end_date
        /\ (row.end_time = NULL \/ row.end_time >= start_date)

\* TimeTrackerDB.get_month_records: (activity_type, start_time, end_time) of the
\* matching rows, in the order of the table (the query has no ORDER BY).
get_month_records(rows, year, month, sql_now) ==
    LET keep(row) == MonthMatches(row, year, month)
        found == SelectSeq(rows, keep)
    IN  [k \in DOMAIN found |->
            [activity_type |-> found[k].activity_type,
             start_time    |-> found[k].start_time,
             end_time      |-> Coalesce(found[k].end_time, sql_now)]]

\* ------------------------------------- TimeTrackerApp._create_month_chart
\* The part of one record the loop adds for the calendar day current_day:
\* from max(start, 00:00:00) to min(end, 23:59:59) of that day.  The code
\* divides by 3600 to get hours; the seconds are kept here.
DayPortion(record, current_day) ==
    LET day_start == Max(record.start_time, StartOfDay(current_day))
        day_end   == Min(record.end_time, StartOfDay(current_day) + DayLen - 1)
    IN  day_end - day_start

\* The while loop over one record, from current_day up to the date of its end:
\* what it adds to daily_data[day_num].  The test is on the month of
\* current_day alone.
RECURSIVE RecordInDay(_, _, _, _)
RecordInDay(record, current_day, month, day_num) ==
    IF current_day > DateOf(record.end_time) THEN 0
    ELSE (IF MonthOf(current_day) = month /\ DayOfMonth(current_day) = day_num
          THEN DayPortion(record, current_day) ELSE 0)
         + RecordInDay(record, current_day + 1, month, day_num)

\* The for loop over the records: daily_data[day_num], for the records of
\* activity act_type or (act_type = "") for the total.
RECURSIVE DayTotal(_, _, _, _)
DayTotal(records, month, day_num, act_type) ==
    IF records = << >> THEN 0
    ELSE (IF act_type \in {"", Head(records).activity_type}
          THEN RecordInDay(Head(records), DateOf(Head(records).start_time), month, day_num)
          ELSE 0)
         + DayTotal(Tail(records), month, day_num, act_type)

\* daily_data: per day of the month the total and the time per activity.
DailyData(records, month) ==
    [day_num \in 1..DaysPerMonth |->
        [total |-> DayTotal(records, month, day_num, ""),
         data  |-> [act \in Activities |-> DayTotal(records, month, day_num, act)]]]

\* A day counts as fully tracked from 23.9 of its 24 hours on: the day less
\* FullDaySlack seconds (360 of 86400, scaled to the model's day).
FullDaySlack == 1
FullDay == DayLen - FullDaySlack

\* TimeTrackerDB.get_covered_days: the marked dates of (year, month).
get_covered_days(covered, year, month) ==
    {day \in covered : YearOf(day) = year /\ MonthOf(day) = month}

\* Mutant: the covered days are not looked at.
ValidDaysIgnoringCover(daily_data, covered, year, month) ==
    {d \in DOMAIN daily_data : daily_data[d].total >= FullDay}

\* valid_days: the days the average is taken over.
ValidDays(daily_data, covered, year, month) ==
    {d \in DOMAIN daily_data :
        /\ daily_data[d].total >= FullDay
        /\ MakeDate(year, month, d) \notin covered}

\* What _create_month_chart computes for (year, month).
MonthChart(rows, covered, year, month, sql_now) ==
    LET records      == get_month_records(rows, year, month, sql_now)
        covered_here == get_covered_days(covered, year, month)
        daily_data   == DailyData(records, month)
    IN  [op |-> "month_chart", year |-> year, month |-> month,
         records |-> records, daily_data |-> daily_data,
         valid_days |-> ValidDays(daily_data, covered_here, year, month)]

\* ------------------------------------------------- the reporting specification
\* The queries are functions of the stored rows, the date asked for and the
\* clock.  A reporting run starts from a store the handlers can leave (one row,
\* closed at or before now, or open with current_status naming it) and applies
\* the queries to it; last holds what the latest query returned.
Times == 0..(NumDays * DayLen - 1)
Dates == 0..NumDays
Years == 0..YearOf(NumDays)
Months == 1..MonthsPerYear
UtcOffsets == {-1, 0, 1}

InitReport ==
    \E a \in Activities, s \in Times, now \in Times, off \in UtcOffsets :
      \E e \in {NULL} \cup Times :
        /\ s <= now
        /\ e # NULL => (s <= e /\ e <= now)
        /\ now - off >= 0
        /\ time_records = <<Row(1, a, s, e)>>
        /\ current_status = IF e = NULL THEN ReplaceStatus(a, s) ELSE << >>
        /\ seq = 1
        /\ clock = strptime(now)
        /\ utc_offset = off
        /\ covered_days = {}
        /\ conn = Closed
        /\ last = [op |-> "init"]
        /\ pre = [op |-> "init"]

Returned(answer) ==
    /\ last' = answer
    /\ UNCHANGED <<time_records, current_status, seq, clock, pre,
                   covered_days, utc_offset, conn>>

\* TimeTrackerApp.show_history: the history window reads get_history.
ShowHistory ==
    Returned([op |-> "get_history",
              result |-> get_history(time_records, SqlNow)])

\* TimeTrackerApp._refresh_analysis: the day view reads get_date_records for
\* the date typed into the date field.
GetDateRecords ==
    \E target_date \in Dates :
        Returned([op |-> "get_date_records", date |-> target_date,
                  result |-> get_date_records(time_records, target_date, SqlNow)])

\* TimeTrackerApp._create_month_chart: the month view reads get_month_records
\* for the selected year and month.
GetMonthRecords ==
    \E year \in Years, month \in Months :
        Returned([op |-> "get_month_records", year |-> year, month |-> month,
                  result |-> get_month_records(time_records, year, month, SqlNow)])

\* TimeTrackerApp._refresh_analysis up to the month view: the chart is built
\* only when the selected date has a record of positive duration.
HasValidRecords ==
    \E selected_date \in Dates :
        \E k \in DOMAIN get_date_records(time_records, selected_date, SqlNow) :
            get_date_records(time_records, selected_date, SqlNow)[k].duration > 0

CreateMonthChart ==
    /\ HasValidRecords
    /\ \E year \in Years, month \in Months :
          Returned(MonthChart(time_records, covered_days, year, month, SqlNow))

NextReport == ShowHistory \/ GetDateRecords \/ GetMonthRecords \/ CreateMonthChart

SpecReport == InitReport /\ [][NextReport]_vars

\* The handlers that write rows together with the queries: the queries are
\* applied to every store the buttons and the manual insertion can leave.
NextQuery ==
    \/ Tick \/ HandleButtonClick \/ ValidateAndSubmit
    \/ ShowHistory \/ GetDateRecords \/ GetMonthRecords

SpecQuery == Init /\ [][NextQuery]_vars

\* The month view over a store whose one closed row may last up to a year and
\* a day, so that it can reach the same month of the following year.
LongTimes == 0..((MonthsPerYear * DaysPerMonth + 1) * DayLen - 1)

InitLong ==
    /\ \E a \in Activities, s \in LongTimes, e \in LongTimes :
          /\ s <= e
          /\ time_records = <<Row(1, a, s, e)>>
    /\ current_status = << >>
    /\ seq = 1
    /\ clock = strptime((MonthsPerYear * DaysPerMonth + 1) * DayLen - 1)
    /\ last = [op |-> "init"]
    /\ pre = [op |-> "init"]
    /\ covered_days = {}
    /\ utc_offset = 0
    /\ conn = Closed

NextLong == GetMonthRecords \/ CreateMonthChart

SpecLong == InitLong /\ [][NextLong]_vars

\* --------------------------------------------- the covered-day specification
\* The month view with its "cover a day" dialog, over a store of one row.
InitCover ==
    /\ \E a \in Activities, s \in Times, e \in Times \cup {NULL} :
          /\ e # NULL => s <= e
          /\ time_records = <<Row(1, a, s, e)>>
          /\ current_status = IF e = NULL THEN ReplaceStatus(a, s) ELSE << >>
    /\ seq = 1
    /\ clock = strptime(NumDays * DayLen - 1)
    /\ last = [op |-> "init"]
    /\ pre = [op |-> "init"]
    /\ covered_days = {}
    /\ utc_offset = 0
    /\ conn = Closed

\* TimeTrackerDB.cover_day: INSERT OR REPLACE of the day.
cover_day(covered, day) == covered \cup {day}

\* The month view is on screen: its button opens the dialog for its month.
ChartShown == last.op \in {"month_chart", "cover_day"}

\* _refresh_analysis building the month view of (year, month).
ShowMonthChart ==
    /\ HasValidRecords
    /\ \E year \in Years, month \in Months :
          last' = MonthChart(time_records, covered_days, year, month, SqlNow)
    /\ UNCHANGED <<time_records, current_status, seq, clock, pre,
                   covered_days, utc_offset, conn>>

\* confirm_cover of the dialog: the spinbox offers days the month may not
\* have (datetime raises ValueError, an error box is shown); otherwise the
\* day is marked and the analysis view is rebuilt.
ConfirmCover ==
    /\ ChartShown
    /\ \E day \in 1..(DaysPerMonth + 1) :
        LET year  == last.year
            month == last.month
        IN  IF day > DaysPerMonth
            THEN UNCHANGED vars
            ELSE /\ Cardinality(cover_day(covered_days, MakeDate(year, month, day))) <= MaxCovered
                 /\ covered_days' = cover_day(covered_days, MakeDate(year, month, day))
                 /\ pre' = [op |-> "cover_day", day |-> day,
                             daily_data |-> last.daily_data,
                             valid_days |-> last.valid_days]
                 /\ last' = [MonthChart(time_records, covered_days', year, month, SqlNow)
                                EXCEPT !.op = "cover_day"]
                 /\ UNCHANGED <<time_records, current_status, seq, clock, utc_offset, conn>>

NextCover == ShowMonthChart \/ ConfirmCover
SpecCover == InitCover /\ [][NextCover]_vars

\* TimeTrackerDB.get_current_status: the row of current_status, or (None, None).
get_current_status(status) ==
    IF status # << >> THEN <<status[1].current_activity, status[1].last_start>>
    ELSE <<NULL, NULL>>

\* C11 (under SpecRecord): after N accepted presses get_history returns exactly N
\* rows, in ascending start order, with the labels in the order of the presses,
\* and the last returned row is the only one with no end.
C11_HistoryRoundTrip ==
    LET h == get_history(time_records, SqlNow)
    IN  /\ Len(h) = seq
        /\ \A k \in DOMAIN h : k < Len(h) => h[k].start_time <= h[k + 1].start_time
        /\ \A k \in DOMAIN h : h[k].activity_type = time_records[k].activity_type
        /\ \A k \in DOMAIN h : h[k].end_time = NULL <=> k = Len(h)

\* C11 witness: three presses, the first two within one second.
C11_Witness ==
    /\ Len(get_history(time_records, SqlNow)) = 3
    /\ time_records[1].start_time = time_records[2].start_time
    /\ time_records[2].start_time < time_records[3].start_time

\* The span [start, end_or_now) of row meets [from, to).
Intersects(row, from, to, now) ==
    Max(row.start_time, from) < Min(EndOrNow(row, now), to)

\* The local wall clock to the second, the now of a row still open.
LocalNow == strftime(clock)

\* C12: a closed row that starts on day D and ends on day D+1 is reported by
\* get_date_records(D) with the duration up to midnight and by
\* get_date_records(D+1) with the duration after midnight, the two summing to
\* end - start.
C12_DayClipping ==
    \A i \in DOMAIN time_records :
        LET row      == time_records[i]
            D        == DateOf(row.start_time)
            midnight == StartOfDay(D + 1)
            first    == get_date_records(<<row>>, D, SqlNow)
            second   == get_date_records(<<row>>, D + 1, SqlNow)
        IN  (/\ last.op = "get_date_records" /\ last.date \in {D, D + 1}
             /\ row.end_time # NULL /\ DateOf(row.end_time) = D + 1) =>
                /\ Len(first) = 1 /\ Len(second) = 1
                /\ first[1].duration = midnight - row.start_time
                /\ second[1].duration = row.end_time - midnight
                /\ first[1].duration + second[1].duration
                      = row.end_time - row.start_time

\* C13 as claimed: get_date_records(date) returns exactly the rows whose span
\* [start, end_or_now) intersects [date 00:00:00, date+1 00:00:00), each with
\* the start max(start, date 00:00:00).
C13_DayRecordsExactlyIntersecting ==
    last.op = "get_date_records" =>
        LET from == StartOfDay(last.date)
            hit(row) == Intersects(row, from, from + DayLen, LocalNow)
            want == OrderByStart(SelectSeq(time_records, hit))
        IN  /\ Len(last.result) = Len(want)
            /\ \A k \in DOMAIN want :
                  /\ last.result[k].activity_type = want[k].activity_type
                  /\ last.result[k].adjusted_start = Max(want[k].start_time, from)

\* C13 as amended: get_date_records(date) returns exactly the rows with
\* start < date+1 00:00:00 and end absent or end >= date 00:00:00, which are all
\* the rows whose span intersects the day and besides them only rows that touch
\* it without covering any of it; each with the start max(start, date 00:00:00).
C13_DayRecordsTouching ==
    last.op = "get_date_records" =>
        LET from == StartOfDay(last.date)
            hit(row) == Intersects(row, from, from + DayLen, LocalNow)
            touch(row) == /\ row.start_time < from + DayLen
                          /\ (row.end_time = NULL \/ row.end_time >= from)
            want == OrderByStart(SelectSeq(time_records, touch))
        IN  /\ \A i \in DOMAIN time_records : hit(time_records[i]) => touch(time_records[i])
            /\ Len(last.result) = Len(want)
            /\ \A k \in DOMAIN want :
                  /\ last.result[k].activity_type = want[k].activity_type
                  /\ last.result[k].adjusted_start = Max(want[k].start_time, from)

\* C13 witness: a row begun the day before and ended inside the day asked for
\* is returned with its start moved up to midnight.
C13_Witness ==
    /\ last.op = "get_date_records"
    /\ time_records[1].start_time < StartOfDay(last.date)
    /\ time_records[1].end_time > StartOfDay(last.date)
    /\ Len(last.result) = 1
    /\ last.result[1].adjusted_start = StartOfDay(last.date)

\* C14: get_month_records(year, month) returns every row whose span
\* [start, end_or_now) intersects the month, a start during the month's last
\* day included, and no row that lies entirely outside the month.
C14_MonthRecordsIntersecting ==
    last.op = "get_month_records" =>
        LET from == StartOfDay(MakeDate(last.year, last.month, 1))
            to   == from + DaysPerMonth * DayLen
            hit(row) == Intersects(row, from, to, LocalNow)
            \* read generously: a row that only touches the month's first
            \* instant is not counted as lying outside
            outside(row) == EndOrNow(row, LocalNow) < from \/ row.start_time >= to
            found(row) == \E k \in DOMAIN last.result :
                              /\ last.result[k].activity_type = row.activity_type
                              /\ last.result[k].start_time = row.start_time
        IN  \A i \in DOMAIN time_records :
                /\ hit(time_records[i]) => found(time_records[i])
                /\ found(time_records[i]) => ~outside(time_records[i])

\* C15: for a row that spans the midnight between days D and D+1 of the viewed
\* month, the month chart adds a positive portion to the totals of D and of D+1,
\* and the two portions sum to end - start.
C15_MonthPortionsSum ==
    (last.op = "month_chart" /\ Len(time_records) = 1) =>
        LET row == time_records[1]
            D   == DateOf(row.start_time)
            tot(day) == last.daily_data[DayOfMonth(day)].total
        IN  (/\ row.end_time # NULL /\ DateOf(row.end_time) = D + 1
             /\ row.end_time > StartOfDay(D + 1)
             /\ YearOf(D) = last.year /\ MonthOf(D) = last.month
             /\ YearOf(D + 1) = last.year /\ MonthOf(D + 1) = last.month) =>
                /\ tot(D) > 0
                /\ tot(D + 1) > 0
                /\ tot(D) + tot(D + 1) = row.end_time - row.start_time

\* The store is empty: no rows, no status, and a press of any button is recorded.
StoreCleared ==
    /\ time_records = << >>
    /\ current_status = << >>
    /\ get_current_status(current_status) = <<NULL, NULL>>
    /\ \A activity_type \in Activities :
          log_activity(activity_type, strftime(clock), time_records,
                       current_status, seq).ret = "True"

C19_ClosedRowsOrdered ==
    \A i \in DOMAIN time_records :
        time_records[i].end_time # NULL =>
            time_records[i].start_time <= time_records[i].end_time

\* C19 witness: after button presses and an insertion by hand the store holds a
\* closed row of zero length and a closed row of positive length.
C19_Witness ==
    /\ Inserted
    /\ \E i, j \in DOMAIN time_records :
          /\ time_records[i].end_time = time_records[i].start_time
          /\ time_records[j].end_time # NULL
          /\ time_records[j].end_time > time_records[j].start_time
    /\ \E i \in DOMAIN pre.time_records : pre.time_records[i].end_time = NULL

\* C20 as claimed: log_activity and manual_insert_activity never change an
\* end_time that is already set.
C20_EndSetOnce ==
    (Recorded \/ Inserted) =>
        \A i \in DOMAIN pre.time_records :
            pre.time_records[i].end_time # NULL =>
                time_records[i].end_time = pre.time_records[i].end_time

\* C20 as amended: a set end_time never becomes absent again; log_activity never
\* changes it; manual_insert_activity changes it only on the row it splits,
\* moving it back to the insertion time p with start_time <= p < old end.
C20_EndMovesOnlyBySplit ==
    (Recorded \/ Inserted) =>
        \A i \in DOMAIN pre.time_records :
            LET old == pre.time_records[i].end_time
                new == time_records[i].end_time
            IN  /\ old # NULL => new # NULL
                /\ (old # NULL /\ new # old) =>
                      /\ Inserted /\ i = last.orig
                      /\ new = last.start_time
                      /\ pre.time_records[i].start_time <= new /\ new < old
                /\ (old = NULL /\ new # NULL) =>
                      \/ Recorded /\ new = last.now
                      \/ Inserted /\ i = last.orig /\ new = last.start_time

\* C20 witness: a closed row was split, its end_time moved back.
C20_Witness ==
    /\ SplitClosed
    /\ time_records[last.orig].end_time = last.start_time
    /\ \E i \in DOMAIN pre.time_records :
          i # last.orig /\ pre.time_records[i].end_time # NULL

\* C17: while a handler's connection is open the database other connections
\* read is the one the handler found or the one its commit left, never one in
\* between; a handler that failed before its commit leaves the database as it
\* found it, and one that returned leaves what the handler does as a whole.
C17_Atomic ==
    /\ conn # Closed =>
          \/ Committed = conn.before
          \/ conn.statements = << >> /\ Committed = conn.work
    /\ (conn = Closed /\ last.op # "init") =>
          IF last.ret = "Error" THEN Committed = pre
          ELSE LET whole == Atomic(last, pre)
               IN  Committed = Store(whole.time_records, whole.current_status, whole.seq)

\* C17 witness: a handler has run two of its writes and not yet committed.
C17_Witness ==
    /\ conn # Closed
    /\ conn.in_transaction
    /\ time_records # << >>
    /\ Len(conn.work.time_records) > Len(time_records)
    /\ conn.work.time_records[1] # time_records[1]
    /\ conn.statements # << >>

\* C18: a day marked with cover_day is never among the days the monthly average
\* is taken over, whatever was tracked on it, and marking it changes no day's
\* totals: the chart after the marking has the daily data of the chart before
\* it, and its averaged days are those of before less the marked day.
C18_CoveredDayExcluded ==
    /\ last.op \in {"month_chart", "cover_day"} =>
          \A d \in last.valid_days :
              MakeDate(last.year, last.month, d) \notin covered_days
    /\ last.op = "cover_day" =>
          /\ last.daily_data = pre.daily_data
          /\ last.valid_days = pre.valid_days \ {pre.day}

\* A fully tracked day is marked while another fully tracked day stays.
C18_Witness ==
    /\ last.op = "cover_day"
    /\ last.daily_data[pre.day].total >= FullDay
    /\ pre.day \in pre.valid_days
    /\ last.valid_days # {}

\* C21: log_activity and manual_insert_activity, the successor update after the
\* split of a closed row included, leave the id, the start_time and the
\* activity_type of every row that was there before the call.
C21_StartImmutable ==
    last.op \in {"log_activity", "manual_insert"} =>
        /\ Len(time_records) >= Len(pre.time_records)
        /\ \A i \in DOMAIN pre.time_records :
              /\ time_records[i].id = pre.time_records[i].id
              /\ time_records[i].start_time = pre.time_records[i].start_time
              /\ time_records[i].activity_type = pre.time_records[i].activity_type

\* C21 witness: a closed row was split before its end and another row starts
\* where it ended, so the successor update had a row to work on.
C21_Witness ==
    /\ SplitClosed
    /\ \E i \in DOMAIN pre.time_records :
          /\ i # last.orig
          /\ pre.time_records[i].start_time = Orig.end_time

\* C22: log_activity and manual_insert_activity delete no row: every id of
\* before the call is still there; an accepted press adds exactly one row, a
\* refused (same label) press adds none, a manual insertion adds exactly one.
C22_RowsOnlyAdded ==
    last.op \in {"log_activity", "manual_insert"} =>
        LET added == Len(time_records) - Len(pre.time_records)
        IN  /\ Ids(pre.time_records) \subseteq Ids(time_records)
            /\ Cardinality(Ids(time_records)) = Len(time_records)
            /\ (Recorded /\ ~SameLabel) => (last.ret = "True" /\ added = 1)
            /\ (Recorded /\ SameLabel) => (last.ret = "False" /\ added = 0)
            /\ Inserted => added = 1

\* C22 witness: a refused press on a store that presses and insertions filled.
C22_Witness ==
    /\ Recorded /\ SameLabel
    /\ Len(time_records) = MaxId
    /\ \E i \in DOMAIN time_records : time_records[i].end_time = NULL

Ascending(result, start_of(_)) ==
    \A j, k \in DOMAIN result : j < k => start_of(result[j]) <= start_of(result[k])

\* C23 (under SpecQuery): get_history, get_date_records and
\* get_month_records each return their rows in ascending order of start.
C23_AllQueriesAscending ==
    LET start_time(r) == r.start_time
        adjusted_start(r) == r.adjusted_start
    IN  /\ last.op \in {"get_history", "get_month_records"} =>
              Ascending(last.result, start_time)
        /\ last.op = "get_date_records" => Ascending(last.result, adjusted_start)

\* C24 (under SpecReport): for an open row get_history and get_date_records
\* report the duration from its start (in get_date_records moved up to the
\* day's 00:00:00) to now on the local clock that stamped the start, positive
\* whenever now is later than that start; no reported duration is negative.
C24_OpenRowEndsNow ==
    (last.op \in {"get_history", "get_date_records"} /\ Len(time_records) = 1) =>
        LET row == time_records[1]
            from == IF last.op = "get_history" THEN row.start_time
                    ELSE AdjustedStart(row, last.date)
        IN  /\ \A k \in DOMAIN last.result : last.result[k].duration >= 0
            /\ (row.end_time = NULL /\ from <= LocalNow) =>
                  \A k \in DOMAIN last.result :
                      last.result[k].duration = LocalNow - from

\* C25: manual_insert_activity never writes current_status: get_current_status
\* returns after the call what it returned before it, in the split case and
\* in the case of no containing row alike.
C25_InsertKeepsStatus ==
    last.op = "manual_insert" =>
        /\ current_status = pre.current_status
        /\ get_current_status(current_status) = get_current_status(pre.current_status)

\* C25 witness: the insertion split the row that current_status names.
C25_Witness ==
    /\ SplitOpen
    /\ pre.current_status # << >>
    /\ Orig.activity_type = pre.current_status[1].current_activity
    /\ Orig.start_time = pre.current_status[1].last_start
    /\ last.activity_type # Orig.activity_type

\* The seconds of row that fall on the calendar day date.
OnDay(row, date) ==
    Max(0, Min(row.end_time, StartOfDay(date) + DayLen) - Max(row.start_time, StartOfDay(date)))

\* C26 (under SpecLong): in the month view of (year, month) each day's total is
\* at most the length of a day and no more than what the rows have on that
\* calendar day of that year and month.
C26_DayTotalsWithinDay ==
    (last.op = "month_chart" /\ Len(time_records) = 1) =>
        \A d \in DOMAIN last.daily_data :
            /\ last.daily_data[d].total <= DayLen
            /\ last.daily_data[d].total
                  <= OnDay(time_records[1], MakeDate(last.year, last.month, d))

====
